---- MODULE Spec2Model ----
(***************************************************************************)
(* Model of the /analyze handler of src/main.py: a base64 PDF is decoded,  *)
(* the text of its first pages is extracted and lower-cased, ten checklist *)
(* rules are searched in it with Python regular expressions, and a report  *)
(* with a pass rate and the list of failed rules is returned.              *)
(*                                                                         *)
(* Text is a TLA+ string.  The criteria of the source contain the          *)
(* characters U+2265 and U+2264, which a TLA+ string cannot hold; they are *)
(* written ">=" and "<=" here.  No detector looks at the criteria.         *)
(***************************************************************************)
EXTENDS Integers, Sequences, FiniteSets, TLC

(***************************************************************************)
(* Bounds of the model.                                                    *)
(***************************************************************************)
\* longest document drawn from PageChoices, in pages
MaxPages == 3
\* number of request slots that may be in flight together in SpecConc
NumReq == 2

(***************************************************************************)
(* Program constants.                                                      *)
(***************************************************************************)
\* pdf.pages[:8]
MaxPagesRead == 8
\* significand width of a Python float (IEEE 754 binary64)
MantBits == 53
\* a significand is kept in three limbs of this many bits
LimbBits == (MantBits + 2) \div 3
\* the factor of (passed / total) * 100
Hundred == 100

(***************************************************************************)
(* str.lower() on the characters the model uses (ASCII).                   *)
(***************************************************************************)
UpperAlphabet == "ABCDEFGHIJKLMNOPQRSTUVWXYZ"
LowerAlphabet == "abcdefghijklmnopqrstuvwxyz"

CharAt(s, i) == SubSeq(s, i, i)

LowerChar(c) ==
  IF \E i \in 1..Len(UpperAlphabet) : CharAt(UpperAlphabet, i) = c
  THEN CharAt(LowerAlphabet,
              CHOOSE i \in 1..Len(UpperAlphabet) : CharAt(UpperAlphabet, i) = c)
  ELSE c

LowerIdentity(s) == s

\* s.lower(), character by character (the string is halved to keep the
\* recursion shallow)
RECURSIVE Lower(_)
Lower(s) ==
  IF Len(s) = 0 THEN ""
  ELSE IF Len(s) = 1 THEN LowerChar(s)
  ELSE LET h == Len(s) \div 2
       IN  Lower(SubSeq(s, 1, h)) \o Lower(SubSeq(s, h + 1, Len(s)))

(***************************************************************************)
(* Python float arithmetic of line 117, int((passed / total) * 100).       *)
(* A positive float is [a, b, c, e]: the significand of MantBits = 53 bits *)
(* is a * 2^36 + b * 2^18 + c, in limbs of LimbBits = 18 bits with         *)
(* 2^16 <= a < 2^17, and the value is the significand times 2^e.  Zero is  *)
(* the float whose limbs are all 0.  Every operation rounds to nearest,    *)
(* ties to even, as IEEE 754 binary64 does.                                *)
(***************************************************************************)
Limb    == 2^LimbBits
TopBits == MantBits - 2 * LimbBits
FloatZero == [a |-> 0, b |-> 0, c |-> 0, e |-> 0]

\* the significand [a, b, c] plus one, renormalised when it reaches 2^53
FloatIncrement(x) ==
  IF x.c + 1 < Limb THEN [x EXCEPT !.c = @ + 1]
  ELSE IF x.b + 1 < Limb THEN [x EXCEPT !.c = 0, !.b = @ + 1]
  ELSE IF x.a + 1 < 2^TopBits THEN [x EXCEPT !.c = 0, !.b = 0, !.a = @ + 1]
  ELSE [a |-> 2^(TopBits - 1), b |-> 0, c |-> 0, e |-> x.e + 1]

\* smallest k with p * 2^k >= t, for 0 < p
RECURSIVE NormShift(_, _)
NormShift(p, t) == IF p >= t THEN 0 ELSE 1 + NormShift(2 * p, t)

\* float(p) / float(t) for integers 0 <= p <= t, 0 < t: long division, the
\* leading 1 and 52 quotient bits in three limbs, then the bit after them
\* and whether anything is left decide the rounding
FloatDiv(p, t) ==
  IF p = 0 THEN FloatZero
  ELSE LET k  == NormShift(p, t)
           r0 == p * 2^k - t
           a  == 2^(TopBits - 1) + (r0 * 2^(TopBits - 1)) \div t
           r1 == (r0 * 2^(TopBits - 1)) % t
           b  == (r1 * Limb) \div t
           r2 == (r1 * Limb) % t
           c  == (r2 * Limb) \div t
           r3 == (r2 * Limb) % t
           guard  == (2 * r3) \div t
           sticky == (2 * r3) % t # 0
           x  == [a |-> a, b |-> b, c |-> c, e |-> 0 - k - (MantBits - 1)]
       IN  IF guard = 1 /\ (sticky \/ c % 2 = 1) THEN FloatIncrement(x) ELSE x

\* number of bits of n, 0 < n < 2^30
BitLength(n) == CHOOSE w \in 1..30 : 2^(w - 1) <= n /\ n < 2^w

\* x * float(m) for an integer 0 < m < 2^13: the exact product, then the d
\* bits beyond the 53rd are dropped with rounding
FloatMulSmall(x, m) ==
  IF x.a = 0 THEN FloatZero
  ELSE LET pc == x.c * m
           pb == x.b * m + pc \div Limb
           pa == x.a * m + pb \div Limb
           c1 == pc % Limb
           b1 == pb % Limb
           d  == BitLength(pa) - TopBits
           dropped == c1 % 2^d
           y  == [a |-> pa \div 2^d,
                  b |-> b1 \div 2^d + (pa % 2^d) * 2^(LimbBits - d),
                  c |-> c1 \div 2^d + (b1 % 2^d) * 2^(LimbBits - d),
                  e |-> x.e + d]
           half == IF d = 0 THEN 1 ELSE 2^(d - 1)
       IN  IF d > 0 /\ (dropped > half \/ (dropped = half /\ y.c % 2 = 1))
           THEN FloatIncrement(y) ELSE y

\* int(x) for 0 <= x < 2^17: truncation
FloatToInt(x) ==
  IF x.a = 0 \/ 0 - x.e >= MantBits THEN 0
  ELSE x.a \div 2^(0 - x.e - 2 * LimbBits)

PassRateIntDivFirst(passed, total) == (passed \div total) * Hundred

\* line 117: pass_rate = int((passed / total) * 100), total > 0
PassRate(passed, total) ==
  FloatToInt(FloatMulSmall(FloatDiv(passed, total), Hundred))

(***************************************************************************)
(* Python regular expressions, as far as the ten detectors use them.  A    *)
(* pattern is a tree of nodes [t, s, kids]: a literal string, one          *)
(* character of a class, a starred class, a concatenation, an alternation. *)
(* Positions are 0..Len(text); Ends is the set of positions at which a     *)
(* match that starts at a position of starts can end.  re.search is        *)
(* truthy iff some match starts somewhere, so the greedy order in which    *)
(* Python tries the matches does not show.                                 *)
(***************************************************************************)
Lit(s)    == [t |-> "lit",  s |-> s,  kids |-> <<>>]
Cls(c)    == [t |-> "cls",  s |-> c,  kids |-> <<>>]
Star(c)   == [t |-> "star", s |-> c,  kids |-> <<>>]
Cat(kids) == [t |-> "cat",  s |-> "", kids |-> kids]
Alt(kids) == [t |-> "alt",  s |-> "", kids |-> kids]

\* the control characters that have no escape in a TLA+ string, written
\* raw: U+000B, U+001C, U+001D, U+001E, U+001F
VerticalTab     == ""
FileSeparator   == ""
GroupSeparator  == ""
RecordSeparator == ""
UnitSeparator   == ""

\* \s on a str pattern: the ASCII characters for which str.isspace() holds
\* (the non-ASCII ones, such as U+0085 and U+00A0, a TLA+ string cannot
\* hold)
SpaceChars ==
  {" ", "\t", "\n", "\r", "\f", VerticalTab,
   FileSeparator, GroupSeparator, RecordSeparator, UnitSeparator}

InClassDotAll(c, class) ==
  CASE class = "dot"        -> TRUE
    [] class = "space"      -> c \in SpaceChars
    [] class = "colonslash" -> c \in {":", "/"}

\* "." without re.DOTALL matches any character but a newline; \s; [:/]
InClass(c, class) ==
  CASE class = "dot"        -> c # "\n"
    [] class = "space"      -> c \in SpaceChars
    [] class = "colonslash" -> c \in {":", "/"}

\* the last position a run of class characters starting after p reaches
RunEnd(text, class, p) ==
  LET stops == {i \in (p + 1)..Len(text) : ~InClass(CharAt(text, i), class)}
  IN  IF stops = {} THEN Len(text)
      ELSE (CHOOSE i \in stops : \A j \in stops : i <= j) - 1

RECURSIVE Ends(_, _, _)
RECURSIVE CatEnds(_, _, _, _)
CatEnds(kids, i, text, starts) ==
  IF i > Len(kids) \/ starts = {} THEN starts
  ELSE CatEnds(kids, i + 1, text, Ends(kids[i], text, starts))

Ends(re, text, starts) ==
  CASE re.t = "lit"  ->
         {p + Len(re.s) : p \in {q \in starts :
              /\ q + Len(re.s) <= Len(text)
              /\ SubSeq(text, q + 1, q + Len(re.s)) = re.s}}
    [] re.t = "cls"  ->
         {p + 1 : p \in {q \in starts :
              q < Len(text) /\ InClass(CharAt(text, q + 1), re.s)}}
    [] re.t = "star" ->
         UNION {p..RunEnd(text, re.s, p) : p \in starts}
    [] re.t = "cat"  -> CatEnds(re.kids, 1, text, starts)
    [] re.t = "alt"  ->
         UNION {Ends(re.kids[i], text, starts) : i \in DOMAIN re.kids}

\* bool(re.search(pattern, text))
Search(re, text) == Ends(re, text, 0..Len(text)) # {}

\* keyword.*(value | value | ...)
KeywordValue(keyword, values) ==
  Cat(<<Lit(keyword), Star("dot"), Alt(values)>>)

(***************************************************************************)
(* The checklist literal of lines 95-106.                                  *)
(***************************************************************************)
Rule(code, criteria, regex) ==
  [code |-> code, criteria |-> criteria, regex |-> regex]

Checklist ==
  << Rule("E6", "door width >= 900mm",
          KeywordValue("door", <<Lit("900"), Lit("1.0"), Lit("1000")>>)),
     Rule("LCR2", "ramp slope <= 8%",
          KeywordValue("ramp",
            << Cat(<<Lit("1"), Cls("colonslash"), Star("space"), Lit("12")>>),
               Cat(<<Lit("8"), Star("space"), Lit("%")>>) >>)),
     Rule("PE1", "path width >= 1800mm",
          KeywordValue("path", <<Lit("1800"), Lit("1.8")>>)),
     Rule("SPpt", "accessible toilet available",
          Alt(<<Lit("toilet"), Lit("wc"), Lit("accessible")>>)),
     Rule("PA1", "parking within 50m",
          KeywordValue("parking", <<Lit("50"), Lit("fifty")>>)),
     Rule("GD3", "handrail height >= 900mm",
          KeywordValue("handrail", <<Lit("900"), Lit("1.0"), Lit("1000")>>)),
     Rule("GS", "stair width >= 1200mm",
          KeywordValue("stair", <<Lit("1200"), Lit("1.2")>>)),
     Rule("PE7", "no abrupt level changes",
          KeywordValue("level", <<Lit("change")>>)),
     Rule("SPsh", "shower turning radius >=1500mm",
          KeywordValue("shower", <<Lit("1500"), Lit("1.5")>>)),
     Rule("LCH1", "guardrail height >=1100mm",
          KeywordValue("guardrail", <<Lit("1100"), Lit("1.1")>>)) >>

(***************************************************************************)
(* Requests.  A request body is one of: not JSON at all; JSON that is not  *)
(* an object; an object without (or with an empty) file_data; file_data    *)
(* that base64.b64decode rejects; bytes that pdfplumber.open rejects; a    *)
(* PDF, given by what extract_text() does on each of its pages: return a   *)
(* string, return None, or raise.                                          *)
(***************************************************************************)
TextPage(s) == [t |-> "text", s |-> s]
NoTextPage  == [t |-> "none", s |-> ""]
CorruptPage == [t |-> "corrupt", s |-> ""]

PageDoor900Upper == "DOOR WIDTH 900MM"
PageDoorHandrail == "door width is 1000mm, handrail height 1000mm"
\* a vertical tab between "1:" and "12"
PageRampPathWc   == "Ramp 1:" \o VerticalTab \o "12\npath 1.8 WC"
PageFiveRules    ==
  "parking fifty stair 1.2 level change shower 1.5 guardrail 1.1"
PageDoorNewline900 == "door\n900"
PageDoor         == "door"
Page900          == "900"

PageChoices ==
  {NoTextPage, CorruptPage} \cup
  {TextPage(s) : s \in {PageDoor900Upper, PageDoorHandrail, PageRampPathWc,
                        PageFiveRules, PageDoorNewline900, PageDoor, Page900}}

Body(kind, pages) == [kind |-> kind, pages |-> pages]

SeqsUpTo(S, n) == UNION {[1..k -> S] : k \in 0..n}

\* documents longer than the eight pages the handler reads: a last page
\* that comes just before, or just after, the cut
LongDocuments ==
  {[i \in 1..k |-> NoTextPage] \o <<p>> :
     k \in {MaxPagesRead - 1, MaxPagesRead}, p \in PageChoices}

FailingKinds == {"notjson", "notobject", "nofile", "badbase64", "notpdf"}

Bodies ==
  {Body(k, <<>>) : k \in FailingKinds} \cup
  {Body("pdf", d) : d \in SeqsUpTo(PageChoices, MaxPages) \cup LongDocuments}

\* the bodies the concurrent clients of SpecConc send
ConcBodies ==
  { Body("nofile", <<>>), Body("notpdf", <<>>),
    Body("pdf", <<NoTextPage>>),
    Body("pdf", <<TextPage(PageDoor900Upper)>>),
    Body("pdf", <<TextPage(PageDoor), TextPage(PageRampPathWc)>>) }

(***************************************************************************)
(* Lines 86-92: the text of the document.                                  *)
(***************************************************************************)
Min(a, b) == IF a <= b THEN a ELSE b

\* pdf.pages[:8]
PagesRead(pages) == SubSeq(pages, 1, Min(Len(pages), MaxPagesRead))

\* page.extract_text() or ""
PageText(page) == IF page.t = "text" THEN page.s ELSE ""

\* pdf_text += ... over the pages read: no separator between pages
RECURSIVE ConcatPages(_)
ConcatPages(pages) ==
  IF pages = <<>> THEN ""
  ELSE PageText(Head(pages)) \o ConcatPages(Tail(pages))

ExtractText(pages) == ConcatPages(PagesRead(pages))

ExtractRaisesNever(pages) == FALSE

\* some page that is read raises in extract_text()
ExtractRaises(pages) ==
  \E i \in DOMAIN PagesRead(pages) : PagesRead(pages)[i].t = "corrupt"

InputFailsOnEmptyText(b) ==
  \/ b.kind \in FailingKinds
  \/ b.kind = "pdf" /\ (ExtractRaises(b.pages) \/ ExtractText(b.pages) = "")

\* the handler leaves the try block through "except" (or through the
\* early return of line 83) before it reaches the checklist
InputFails(b) ==
  \/ b.kind \in FailingKinds
  \/ b.kind = "pdf" /\ ExtractRaises(b.pages)

\* the message of the error response: the literal of line 83, or str(e),
\* which the model abstracts to the name of the call that raised
ErrorMessage(b) ==
  CASE b.kind = "nofile"    -> "No file data received."
    [] b.kind = "notjson"   -> "request.json() raised"
    [] b.kind = "notobject" -> "data.get raised"
    [] b.kind = "badbase64" -> "base64.b64decode raised"
    [] b.kind = "notpdf"    -> "pdfplumber.open raised"
    [] b.kind = "pdf"       -> "page.extract_text() raised"

ErrorResponseAsReport(message) ==
  [status |-> "error", message |-> message, pass_rate |-> 0, failed |-> <<>>]

\* lines 83 and 126
ErrorResponse(message) == [status |-> "error", message |-> message]

OkResponse(pass_rate, failed) ==
  [status |-> "ok", pass_rate |-> pass_rate, failed |-> failed]

NoResponse == [status |-> "none"]
NoBody == Body("none", <<>>)

(***************************************************************************)
(* State: one frame of analyze() per request slot.                         *)
(***************************************************************************)
VARIABLES
  pc,             \* where the call is: idle, awaiting, loop, done
  body,           \* the request body
  pdf_text,       \* local pdf_text (after line 92)
  checklist,      \* local checklist
  idx,            \* position of the for loop of line 110 in checklist
  passed,         \* local passed
  failed_checks,  \* local failed_checks
  resp            \* the response returned

vars == <<pc, body, pdf_text, checklist, idx, passed, failed_checks, resp>>

Reqs == 1..NumReq

Init ==
  /\ pc = [r \in Reqs |-> "idle"]
  /\ body = [r \in Reqs |-> NoBody]
  /\ pdf_text = [r \in Reqs |-> ""]
  /\ checklist = [r \in Reqs |-> <<>>]
  /\ idx = [r \in Reqs |-> 0]
  /\ passed = [r \in Reqs |-> 0]
  /\ failed_checks = [r \in Reqs |-> <<>>]
  /\ resp = [r \in Reqs |-> NoResponse]

\* line 77: a request arrives and the call waits for its body (line 80)
Receive(r, bodies) ==
  /\ pc[r] = "idle"
  /\ \E b \in bodies : body' = [body EXCEPT ![r] = b]
  /\ pc' = [pc EXCEPT ![r] = "awaiting"]
  /\ UNCHANGED <<pdf_text, checklist, idx, passed, failed_checks, resp>>

\* lines 80-90 and 125-126: the body is missing or cannot be read
RejectRequest(r) ==
  /\ pc[r] = "awaiting"
  /\ InputFails(body[r])
  /\ resp' = [resp EXCEPT ![r] = ErrorResponse(ErrorMessage(body[r]))]
  /\ pc' = [pc EXCEPT ![r] = "done"]
  /\ UNCHANGED <<body, pdf_text, checklist, idx, passed, failed_checks>>

\* lines 95-106: a Python list display builds the list of its items, in
\* order, and checks nothing about them
BuildChecklist(items) == items

\* lines 80-109: the text is extracted and lower-cased, the checklist
\* literal is built, failed_checks = [] and passed = 0
ReadDocument(r, literal) ==
  /\ pc[r] = "awaiting"
  /\ ~InputFails(body[r])
  /\ pdf_text' = [pdf_text EXCEPT ![r] = Lower(ExtractText(body[r].pages))]
  /\ checklist' = [checklist EXCEPT ![r] = BuildChecklist(literal)]
  /\ failed_checks' = [failed_checks EXCEPT ![r] = <<>>]
  /\ passed' = [passed EXCEPT ![r] = 0]
  /\ idx' = [idx EXCEPT ![r] = 1]
  /\ pc' = [pc EXCEPT ![r] = "loop"]
  /\ UNCHANGED <<body, resp>>

PassedAfterShared(counters, r) == [q \in DOMAIN counters |-> counters[q] + 1]

\* line 112: passed += 1, on the local of call r
PassedAfter(counters, r) == [counters EXCEPT ![r] = @ + 1]

\* line 114: the entry appended for a rule that did not match
FailureEntry(rule) ==
  [code |-> rule.code,
   description |-> "Missing or non-compliant: " \o rule.criteria]

FailedAfterPrepend(failed, rule) == <<FailureEntry(rule)>> \o failed

FailedAfterReplace(failed, rule) == <<FailureEntry(rule)>>

\* line 114: failed_checks.append(...)
FailedAfter(failed, rule) == Append(failed, FailureEntry(rule))

\* line 111: re.search(rule["regex"], pdf_text)
Matches(rule, text) == Search(rule.regex, text)

\* lines 110-114: one iteration of the for loop
LoopStep(r) ==
  /\ pc[r] = "loop"
  /\ idx[r] <= Len(checklist[r])
  /\ LET rule == checklist[r][idx[r]]
     IN  IF Matches(rule, pdf_text[r])
         THEN /\ passed' = PassedAfter(passed, r)
              /\ UNCHANGED failed_checks
         ELSE /\ failed_checks' =
                   [failed_checks EXCEPT ![r] = FailedAfter(@, rule)]
              /\ UNCHANGED passed
  /\ idx' = [idx EXCEPT ![r] = @ + 1]
  /\ UNCHANGED <<pc, body, pdf_text, checklist, resp>>

\* lines 116-126: total, pass_rate and the response; with an empty
\* checklist the division raises ZeroDivisionError, which "except" answers
Finish(r) ==
  /\ pc[r] = "loop"
  /\ idx[r] > Len(checklist[r])
  /\ LET total == Len(checklist[r])
     IN  resp' = [resp EXCEPT ![r] =
           IF total = 0 THEN ErrorResponse("division by zero")
           ELSE OkResponse(PassRate(passed[r], total), failed_checks[r])]
  /\ pc' = [pc EXCEPT ![r] = "done"]
  /\ UNCHANGED <<body, pdf_text, checklist, idx, passed, failed_checks>>

\* the response is delivered and the frame is gone
Close(r) ==
  /\ pc[r] = "done"
  /\ pc' = [pc EXCEPT ![r] = "idle"]
  /\ body' = [body EXCEPT ![r] = NoBody]
  /\ pdf_text' = [pdf_text EXCEPT ![r] = ""]
  /\ checklist' = [checklist EXCEPT ![r] = <<>>]
  /\ idx' = [idx EXCEPT ![r] = 0]
  /\ passed' = [passed EXCEPT ![r] = 0]
  /\ failed_checks' = [failed_checks EXCEPT ![r] = <<>>]
  /\ resp' = [resp EXCEPT ![r] = NoResponse]

\* one client, any document
Next ==
  \/ Receive(1, Bodies)
  \/ RejectRequest(1)
  \/ ReadDocument(1, Checklist)
  \/ LoopStep(1)
  \/ Finish(1)
  \/ Close(1)

Spec == Init /\ [][Next]_vars

\* NumReq clients whose calls interleave at every statement
NextConc ==
  \E r \in Reqs :
    \/ Receive(r, ConcBodies)
    \/ RejectRequest(r)
    \/ ReadDocument(r, Checklist)
    \/ LoopStep(r)
    \/ Finish(r)
    \/ Close(r)

SpecConc == Init /\ [][NextConc]_vars

(***************************************************************************)
(* Notions the properties are stated with.                                 *)
(***************************************************************************)
Done(r) == pc[r] = "done"
Ok(r)   == pc[r] = "done" /\ resp[r].status = "ok"

\* positions of the rules of a checklist whose detector does not match
Unsatisfied(rules, text) == {i \in DOMAIN rules : ~Matches(rules[i], text)}
Satisfied(rules, text)   == {i \in DOMAIN rules : Matches(rules[i], text)}

Codes(failed) == [k \in DOMAIN failed |-> failed[k].code]

\* the document cannot be decoded, opened or extracted
Malformed(b) ==
  \/ b.kind \in {"badbase64", "notpdf"}
  \/ /\ b.kind = "pdf"
     /\ \E i \in 1..Len(b.pages) : i <= MaxPagesRead /\ b.pages[i].t = "corrupt"

\* the request carries no document payload
NoPayload(b) == b.kind \in {"notjson", "notobject", "nofile"}

\* a decodable document whose pages yield no text
EmptyDocument(b) ==
  /\ b.kind = "pdf"
  /\ \A i \in 1..Len(b.pages) :
       i <= MaxPagesRead => (b.pages[i].t = "none" \/ b.pages[i] = TextPage(""))

AllRulesFailed == [i \in DOMAIN Checklist |->
  [code |-> Checklist[i].code,
   description |-> "Missing or non-compliant: " \o Checklist[i].criteria]]

\* the handler run on a body by a single call, nothing else in flight
RECURSIVE RunAlone(_, _, _, _, _)
RunAlone(rules, i, text, counters, failed) ==
  IF i > Len(rules) THEN [passed |-> counters[1], failed |-> failed]
  ELSE IF Matches(rules[i], text)
       THEN RunAlone(rules, i + 1, text, PassedAfter(counters, 1), failed)
       ELSE RunAlone(rules, i + 1, text, counters, FailedAfter(failed, rules[i]))

ReportOfText(raw) ==
  LET run == RunAlone(Checklist, 1, Lower(raw), [q \in {1} |-> 0], <<>>)
  IN  OkResponse(PassRate(run.passed, Len(Checklist)), run.failed)

AloneResponse(b) ==
  IF InputFails(b) THEN ErrorResponse(ErrorMessage(b))
  ELSE ReportOfText(ExtractText(b.pages))

\* the text with its letters turned to upper case, or with the case of
\* every letter swapped
CaseChar(c, how) ==
  IF \E i \in 1..Len(UpperAlphabet) : CharAt(LowerAlphabet, i) = c
  THEN CharAt(UpperAlphabet,
              CHOOSE i \in 1..Len(UpperAlphabet) : CharAt(LowerAlphabet, i) = c)
  ELSE IF how = "swap" /\ \E i \in 1..Len(UpperAlphabet) : CharAt(UpperAlphabet, i) = c
  THEN CharAt(LowerAlphabet,
              CHOOSE i \in 1..Len(UpperAlphabet) : CharAt(UpperAlphabet, i) = c)
  ELSE c

RECURSIVE Recase(_, _)
Recase(s, how) ==
  IF Len(s) = 0 THEN ""
  ELSE IF Len(s) = 1 THEN CaseChar(s, how)
  ELSE LET h == Len(s) \div 2
       IN  Recase(SubSeq(s, 1, h), how) \o Recase(SubSeq(s, h + 1, Len(s)), how)

\* the rules of the form keyword.*(values)
KeywordRules == {i \in DOMAIN Checklist :
  /\ Checklist[i].regex.t = "cat"
  /\ Len(Checklist[i].regex.kids) = 3
  /\ Checklist[i].regex.kids[2] = Star("dot")}

KeywordOf(i) == Checklist[i].regex.kids[1]
ValuesOf(i)  == Checklist[i].regex.kids[3]

\* positions right after an occurrence of the keyword of rule i
KeywordEnds(i, text) == Ends(KeywordOf(i), text, 0..Len(text))
\* positions at which an occurrence of a value of rule i starts
ValueStarts(i, text) ==
  {b \in 0..Len(text) : Ends(ValuesOf(i), text, {b}) # {}}

KeywordBeforeValue(i, text) ==
  \E a \in KeywordEnds(i, text), b \in ValueStarts(i, text) : a <= b

KeywordBeforeValueOnLine(i, text) ==
  \E a \in KeywordEnds(i, text), b \in ValueStarts(i, text) :
    /\ a <= b
    /\ \A k \in (a + 1)..b : CharAt(text, k) # "\n"

RuleReportedFailed(r, i) ==
  \E k \in DOMAIN resp[r].failed : resp[r].failed[k].code = Checklist[i].code

(***************************************************************************)
(* Properties.                                                             *)
(***************************************************************************)

\* C1: in every status "ok" report of the ten-rule checklist, pass_rate is
\* floor(100 * passedCount / totalRules), which is 10 * passedCount, where
\* passedCount is the number of rules whose regex matches the text; and the
\* same computation on 3 passed of 7 gives 42, not 43.
C1_PassRateIsFloor ==
  \A r \in Reqs : Ok(r) =>
    LET total       == Len(checklist[r])
        passedCount == Cardinality(Satisfied(checklist[r], pdf_text[r]))
    IN  /\ total = 10
        /\ resp[r].pass_rate = (100 * passedCount) \div total
        /\ resp[r].pass_rate = 10 * passedCount
        /\ resp[r].pass_rate \in 0..100
        /\ PassRate(3, 7) = 42

\* seven rules of ten passed: 7 / 10 * 100 is 70.0 in binary64, rate 70
C1_Witness ==
  /\ Ok(1)
  /\ Cardinality(Satisfied(checklist[1], pdf_text[1])) = 7
  /\ resp[1].pass_rate = 70

\* C2: in every status "ok" report, failed lists exactly the rules whose
\* detector did not match the text, each once, so that its length is
\* totalRules - passedCount; the text "door width is 1000mm, handrail height
\* 1000mm" gives 20 and the eight other codes.
C2_FailedAreTheUnsatisfied ==
  \A r \in Reqs : Ok(r) =>
    LET rules  == checklist[r]
        failed == resp[r].failed
        unsat  == Unsatisfied(rules, pdf_text[r])
    IN  /\ \A i \in unsat :
             Cardinality({k \in DOMAIN failed : failed[k].code = rules[i].code}) = 1
        /\ \A i \in DOMAIN rules \ unsat :
             \A k \in DOMAIN failed : failed[k].code # rules[i].code
        /\ \A k \in DOMAIN failed :
             \E i \in unsat : failed[k].code = rules[i].code
        /\ Len(failed) =
             Len(rules) - Cardinality(Satisfied(rules, pdf_text[r]))
        /\ pdf_text[r] = PageDoorHandrail =>
             /\ resp[r].pass_rate = 20
             /\ Codes(failed) =
                  <<"LCR2", "PE1", "SPpt", "PA1", "GS", "PE7", "SPsh", "LCH1">>

C2_Witness ==
  /\ Ok(1)
  /\ pdf_text[1] = PageDoorHandrail
  /\ Len(resp[1].failed) = 8

\* C3: the failed list is the checklist order restricted to the unsatisfied
\* rules: its k-th entry is the k-th unsatisfied rule of the checklist, with
\* the description "Missing or non-compliant: " followed by its criterion.
C3_FailedInChecklistOrder ==
  \A r \in Reqs : Ok(r) =>
    LET rules  == checklist[r]
        failed == resp[r].failed
        unsat  == Unsatisfied(rules, pdf_text[r])
    IN  /\ Len(failed) = Cardinality(unsat)
        /\ \A k \in DOMAIN failed :
             \E i \in unsat :
               /\ Cardinality({j \in unsat : j < i}) = k - 1
               /\ failed[k].code = rules[i].code
               /\ failed[k].description =
                    "Missing or non-compliant: " \o rules[i].criteria
               /\ DOMAIN failed[k] = {"code", "description"}

\* rules 2, 3 and 4 are satisfied: the failures skip from E6 to PA1
C3_Witness ==
  /\ Ok(1)
  /\ body[1].pages = <<TextPage(PageRampPathWc)>>
  /\ Len(resp[1].failed) = 7
  /\ resp[1].failed[1] =
       [code |-> "E6", description |-> "Missing or non-compliant: door width >= 900mm"]
  /\ resp[1].failed[2].code = "PA1"

\* C4: a decodable document whose pages yield no text is answered with
\* status "ok", pass_rate 0 and every rule of the checklist in failed, in
\* checklist order.
C4_EmptyTextIsZeroPercent ==
  \A r \in Reqs : Done(r) /\ EmptyDocument(body[r]) =>
    /\ resp[r].status = "ok"
    /\ resp[r].pass_rate = 0
    /\ resp[r].failed = AllRulesFailed

C4_Witness ==
  /\ Done(1)
  /\ body[1] = Body("pdf", <<NoTextPage, NoTextPage>>)
  /\ pdf_text[1] = ""
  /\ resp[1].status = "ok"
  /\ Len(resp[1].failed) = 10

\* C5: a request without a document payload, or whose payload cannot be
\* decoded, opened or extracted, is answered {status: "error", message} and
\* never enters the rule loop; an error response never carries pass_rate or
\* failed, and no "ok" response comes from such a request.
C5_InputErrorsNeverReachTheLoop ==
  \A r \in Reqs :
    LET bad == NoPayload(body[r]) \/ Malformed(body[r])
    IN  /\ Done(r) /\ bad =>
             /\ resp[r].status = "error"
             /\ DOMAIN resp[r] = {"status", "message"}
        /\ bad => pc[r] # "loop" /\ checklist[r] = <<>> /\ idx[r] = 0
        /\ Done(r) /\ resp[r].status = "error" =>
             DOMAIN resp[r] = {"status", "message"}
        /\ Done(r) /\ resp[r].status = "ok" =>
             /\ ~bad
             /\ DOMAIN resp[r] = {"status", "pass_rate", "failed"}

\* a PDF that opens, but one of whose pages cannot be extracted
C5_Witness ==
  /\ Done(1)
  /\ body[1].kind = "pdf"
  /\ Malformed(body[1])
  /\ resp[1].status = "error"

\* C6 as stated: a malformed or empty document always yields a well-formed
\* report with 0% pass rate and all rules failed.
C6_Original ==
  \A r \in Reqs : Done(r) /\ (Malformed(body[r]) \/ EmptyDocument(body[r])) =>
    /\ resp[r].status = "ok"
    /\ resp[r].pass_rate = 0
    /\ resp[r].failed = AllRulesFailed

\* C6 amended: an empty document yields the report with 0% and all rules
\* failed; a malformed document yields {status: "error", message} and no
\* report; either way the request is answered.
C6_EmptyReportsMalformedErrors ==
  \A r \in Reqs :
    /\ Done(r) => resp[r].status \in {"ok", "error"}
    /\ Done(r) /\ EmptyDocument(body[r]) =>
         resp[r] = [status |-> "ok", pass_rate |-> 0, failed |-> AllRulesFailed]
    /\ Done(r) /\ Malformed(body[r]) =>
         /\ resp[r].status = "error"
         /\ DOMAIN resp[r] = {"status", "message"}

C6_Witness ==
  /\ Done(1)
  /\ body[1].kind = "notpdf"
  /\ resp[1] = ErrorResponse("pdfplumber.open raised")

\* the codes of a checklist are non-empty and pairwise distinct
ValidRegistry(rules) ==
  /\ \A i \in DOMAIN rules : rules[i].code # ""
  /\ \A i, j \in DOMAIN rules : rules[i].code = rules[j].code => i = j

\* lists of rules that break the constraint, made of the rules of the
\* source: a rule written twice, and a rule whose code is left empty
InvalidRegistries ==
  {<<Checklist[i], Checklist[i]>> : i \in DOMAIN Checklist} \cup
  {<<[Checklist[i] EXCEPT !.code = ""]>> : i \in DOMAIN Checklist}

ConfigurationError == "configuration error"

\* C7: the construction that gives a call its checklist fails with a
\* configuration error on a list with a duplicate or an empty code, so that
\* no call iterates over such a checklist.
C7_ConstructionRejectsDuplicates ==
  \A r \in Reqs : pc[r] = "loop" =>
    /\ ValidRegistry(checklist[r])
    /\ \A rules \in InvalidRegistries :
         BuildChecklist(rules) = ConfigurationError

\* C8: whatever the interleaving of the calls in flight, a finished call has
\* returned what its body gives when it is handled alone, two finished
\* calls with the same body have returned the same response, and the
\* checklist a call iterates over is the literal, unchanged.
C8_CallsAreIndependent ==
  /\ \A r \in Reqs : Done(r) => resp[r] = AloneResponse(body[r])
  /\ \A r, q \in Reqs :
       Done(r) /\ Done(q) /\ body[r] = body[q] => resp[r] = resp[q]
  /\ \A r \in Reqs : pc[r] = "loop" \/ Ok(r) => checklist[r] = Checklist

\* one call has returned its report while another is in the middle of its
\* loop over the same document
C8_Witness ==
  /\ Ok(1)
  /\ pc[2] = "loop"
  /\ body[2] = body[1]
  /\ idx[2] = 6
  /\ passed[2] = 3
  /\ resp[1].pass_rate = 30

\* C9: the report of a text is the report of the same text with its letters
\* in upper case, in lower case, or with the case of every letter swapped;
\* "DOOR WIDTH 900MM" satisfies the door-width rule.
C9_CaseInsensitive ==
  \A r \in Reqs : Ok(r) =>
    LET raw == ExtractText(body[r].pages)
    IN  /\ resp[r] = ReportOfText(Recase(raw, "upper"))
        /\ resp[r] = ReportOfText(Recase(raw, "swap"))
        /\ resp[r] = ReportOfText(Recase(Recase(raw, "upper"), "swap"))
        /\ raw \in {PageDoor900Upper, "door width 900mm"} =>
             /\ ~RuleReportedFailed(r, 1)
             /\ resp[r].pass_rate = 10

C9_Witness ==
  /\ Ok(1)
  /\ ExtractText(body[1].pages) = PageDoor900Upper
  /\ pdf_text[1] = "door width 900mm"
  /\ ~RuleReportedFailed(1, 1)

\* C10 as stated: a keyword-then-value rule is satisfied whenever (and only
\* when) its keyword occurs before one of its values anywhere in the text,
\* line breaks included.
C10_Original ==
  \A r \in Reqs : Ok(r) =>
    \A i \in KeywordRules :
      ~RuleReportedFailed(r, i) <=> KeywordBeforeValue(i, pdf_text[r])

\* C10 amended: a rule is satisfied iff its detector matches somewhere in
\* the whole text; a keyword-then-value rule is satisfied iff its keyword
\* occurs before one of its values with no line break between them; pages
\* are joined without a separator, so a page boundary alone does not keep
\* the keyword at the end of a page from the value that opens the next.
C10_KeywordAndValueOnOneLine ==
  \A r \in Reqs : Ok(r) =>
    /\ \A i \in DOMAIN Checklist :
         ~RuleReportedFailed(r, i) <=> Matches(Checklist[i], pdf_text[r])
    /\ \A i \in KeywordRules :
         ~RuleReportedFailed(r, i) <=> KeywordBeforeValueOnLine(i, pdf_text[r])
    /\ body[r].pages = <<TextPage(PageDoor), TextPage(Page900)>> =>
         ~RuleReportedFailed(r, 1)

\* "door", a line break, "900": the door rule is reported failed
C10_Witness ==
  /\ Ok(1)
  /\ pdf_text[1] = PageDoorNewline900
  /\ KeywordBeforeValue(1, pdf_text[1])
  /\ RuleReportedFailed(1, 1)

====
